---- MODULE Spec2Model ----
(***************************************************************************)
(* Model of src/app.py: the cleaning pipeline load_and_clean_data, the     *)
(* recommendation engine filter_and_rank_restaurants and the session logic *)
(* of main.                                                                *)
(*                                                                         *)
(* Representation.                                                         *)
(*  - A string is a sequence of one-character strings, so that lower(),    *)
(*    split(), strip() and the regular-expression search of str.contains   *)
(*    are computed and not assumed.  Restaurant names are only compared    *)
(*    for equality and are kept as atoms.                                  *)
(*  - A cell (and a Python optional) is a set with at most one element:    *)
(*    {} is NaN / None, {v} holds v.                                       *)
(*  - Ratings are in tenths (45 is 4.5); scores are scaled by 10000.       *)
(*  - A DataFrame is [columns, rows]; a row is [idx, cells] where idx is   *)
(*    the pandas index label and cells maps each column to its cell.       *)
(***************************************************************************)
EXTENDS Integers, Sequences, FiniteSets, TLC

VARIABLES
    file,            \* the table stored in 'zomato.csv': [columns, rows]
    tiePolicy,       \* order the sort gives to records of equal score
    outcome,         \* how the last load_and_clean_data call ended
    reads,           \* encodings passed to pd.read_csv by the last call
    stagesRun,       \* pipeline stages the last call executed
    cleaned,         \* the DataFrame the last call returned (None if none)
    df,              \* the DataFrame handed to filter_and_rank_restaurants
    dfBefore,        \* its value just before the last call
    request,         \* arguments of the last filter_and_rank_restaurants call
    filtered,        \* the local filtered_df of that call, before scoring
    ranked,          \* the DataFrame that call returned
    recommendations, \* st.session_state.recommendations
    preferences,     \* st.session_state.preferences
    filtered_df,     \* st.session_state.filtered_df
    lastRun          \* what the last run of main did

vars == <<file, tiePolicy, outcome, reads, stagesRun, cleaned, df, dfBefore,
          request, filtered, ranked, recommendations, preferences, filtered_df, lastRun>>

cleanVars == <<outcome, reads, stagesRun, cleaned>>
rankVars == <<df, dfBefore, request, filtered, ranked>>
sessionVars == <<recommendations, preferences, filtered_df>>

-----------------------------------------------------------------------------
(* Optional values and strings                                             *)

NaN == {}
None == {}
Some(v) == {v}
Val(c) == CHOOSE x \in c : TRUE
notnull(c) == c # {}

LowerCh(c) ==
    CASE c = "A" -> "a"
      [] c = "B" -> "b"
      [] c = "U" -> "u"
      [] c = "L" -> "l"
      [] c = "M" -> "m"
      [] c = "H" -> "h"
      [] OTHER -> c

lower(s) == [i \in 1..Len(s) |-> LowerCh(s[i])]

FirstIndex(s, ch) ==
    IF \E i \in 1..Len(s) : s[i] = ch
    THEN CHOOSE i \in 1..Len(s) : s[i] = ch /\ \A j \in 1..(i - 1) : s[j] # ch
    ELSE 0

RECURSIVE split(_, _)
split(s, sep) ==
    LET i == FirstIndex(s, sep)
    IN IF i = 0 THEN <<s>>
       ELSE <<SubSeq(s, 1, i - 1)>> \o split(SubSeq(s, i + 1, Len(s)), sep)

RECURSIVE join(_, _)
join(list, sep) ==
    IF list = <<>> THEN <<>>
    ELSE IF Len(list) = 1 THEN list[1]
    ELSE list[1] \o sep \o join(Tail(list), sep)

RECURSIVE strip(_)
strip(s) ==
    IF s = <<>> THEN s
    ELSE IF s[1] = " " THEN strip(Tail(s))
    ELSE IF s[Len(s)] = " " THEN strip(SubSeq(s, 1, Len(s) - 1))
    ELSE s

replace(s, ch) == SelectSeq(s, LAMBDA c : c # ch)

\* re.search with the two metacharacters of the model: "|" separates
\* alternatives and "." matches any one character.
MatchAt(s, alt, i) ==
    /\ i + Len(alt) - 1 <= Len(s)
    /\ \A k \in 1..Len(alt) : alt[k] = "." \/ alt[k] = s[i + k - 1]

contains(s, pat) ==
    LET alts == split(pat, "|")
    IN \E a \in 1..Len(alts) : \E i \in 1..(Len(s) + 1) : MatchAt(s, alts[a], i)

\* Plain substring test, the notion the specification uses.
IsSubstring(s, sub) ==
    \E i \in 1..(Len(s) + 1) :
        /\ i + Len(sub) - 1 <= Len(s)
        /\ SubSeq(s, i, i + Len(sub) - 1) = sub

Digits == {"0", "1", "2", "3", "4", "5", "6", "7", "8", "9"}

DigitVal(c) ==
    CASE c = "0" -> 0 [] c = "1" -> 1 [] c = "2" -> 2 [] c = "3" -> 3
      [] c = "4" -> 4 [] c = "5" -> 5 [] c = "6" -> 6 [] c = "7" -> 7
      [] c = "8" -> 8 [] c = "9" -> 9

AllDigits(s) == s # <<>> /\ \A i \in 1..Len(s) : s[i] \in Digits

RECURSIVE IntOf(_)
IntOf(s) == IF s = <<>> THEN 0
            ELSE 10 * IntOf(SubSeq(s, 1, Len(s) - 1)) + DigitVal(s[Len(s)])

\* pd.to_numeric(errors='coerce') on a cost text: an integer or NaN.
to_numeric(s) == IF AllDigits(s) THEN Some(IntOf(s)) ELSE NaN

\* pd.to_numeric(errors='coerce') on a rating text, in tenths: "4.5" is 45.
to_numeric_tenths(s) ==
    LET p == split(s, ".")
    IN IF Len(p) = 1 /\ AllDigits(p[1]) THEN Some(10 * IntOf(p[1]))
       ELSE IF Len(p) = 2 /\ AllDigits(p[1]) /\ Len(p[2]) = 1 /\ AllDigits(p[2])
       THEN Some(10 * IntOf(p[1]) + IntOf(p[2]))
       ELSE NaN

-----------------------------------------------------------------------------
(* DataFrames                                                              *)

Max(S) == CHOOSE x \in S : \A y \in S : y <= x

\* The rows of the given positions, in their original order.
RECURSIVE Pick(_, _)
Pick(rows, K) ==
    IF K = {} THEN <<>>
    ELSE LET m == Max(K) IN Append(Pick(rows, K \ {m}), rows[m])

\* df[col] = value for every row, value computed from the row's cells.
Assign(d, col, f(_)) ==
    [columns |-> d.columns \cup {col},
     rows |-> [i \in 1..Len(d.rows) |->
                 [idx |-> d.rows[i].idx,
                  cells |-> [c \in d.columns \cup {col} |->
                               IF c = col THEN f(d.rows[i].cells)
                               ELSE d.rows[i].cells[c]]]]]

\* df.rename(columns={old: new})
rename(d, old, new) ==
    [columns |-> (d.columns \ {old}) \cup {new},
     rows |-> [i \in 1..Len(d.rows) |->
                 [idx |-> d.rows[i].idx,
                  cells |-> [c \in (d.columns \ {old}) \cup {new} |->
                               IF c = new THEN d.rows[i].cells[old]
                               ELSE d.rows[i].cells[c]]]]]

\* df.drop(columns=[...])
drop(d, cols) ==
    [columns |-> d.columns \ cols,
     rows |-> [i \in 1..Len(d.rows) |->
                 [idx |-> d.rows[i].idx,
                  cells |-> [c \in d.columns \ cols |-> d.rows[i].cells[c]]]]]

drop_duplicates_keep_last(d, subset) ==
    [d EXCEPT !.rows =
        Pick(d.rows, {i \in 1..Len(d.rows) :
                        ~ \E j \in (i + 1)..Len(d.rows) :
                            \A c \in subset : d.rows[j].cells[c] = d.rows[i].cells[c]})]

\* df.drop_duplicates(subset=...): the first row of each key is kept; two
\* NaN cells count as equal.
drop_duplicates(d, subset) ==
    [d EXCEPT !.rows =
        Pick(d.rows, {i \in 1..Len(d.rows) :
                        ~ \E j \in 1..(i - 1) :
                            \A c \in subset : d.rows[j].cells[c] = d.rows[i].cells[c]})]

\* df.dropna(thresh=len(df.columns) * 0.7): a row stays when it has at least
\* thresh non-null cells, i.e. 10 * count >= 7 * len(df.columns).
dropna(d) ==
    [d EXCEPT !.rows =
        Pick(d.rows, {i \in 1..Len(d.rows) :
                        10 * Cardinality({c \in d.columns : notnull(d.rows[i].cells[c])})
                            >= 7 * Cardinality(d.columns)})]

\* pd.read_csv: the rows of the file under a fresh RangeIndex.
read_csv(f) ==
    [columns |-> f.columns,
     rows |-> [i \in 1..Len(f.rows) |-> [idx |-> i - 1, cells |-> f.rows[i]]]]

-----------------------------------------------------------------------------
(* load_and_clean_data                                                     *)

column_map == <<
    [std |-> "name", aliases |-> <<"Restaurant Name", "restaurant_name", "name">>],
    [std |-> "location",
     aliases |-> <<"City", "Locality", "Locality Verbose", "Address", "location">>],
    [std |-> "rating", aliases |-> <<"Aggregate rating", "rate", "rating", "Rating">>],
    [std |-> "cost",
     aliases |-> <<"Average Cost for two", "cost_for_two", "approx_cost", "cost",
                   "average_cost">>],
    [std |-> "cuisines", aliases |-> <<"Cuisines", "cuisine", "Cuisine">>],
    [std |-> "votes", aliases |-> <<"Votes", "votes", "vote_count">>] >>

columns_to_drop ==
    {"Restaurant ID", "Country Code", "Currency", "Has Table booking",
     "Has Online delivery", "Is delivering now", "Switch to order menu",
     "Price range", "Rating color", "Rating text"}

\* The rename loop, from entry k of column_map on: the first alias found in
\* the columns is renamed to the standard name.
RECURSIVE RenameColumns(_, _)
RenameColumns(d, k) ==
    IF k > Len(column_map) THEN d
    ELSE LET al == column_map[k].aliases
             hits == {a \in 1..Len(al) : al[a] \in d.columns}
         IN IF hits = {} THEN RenameColumns(d, k + 1)
            ELSE LET first == CHOOSE a \in hits : \A b \in hits : a <= b
                 IN RenameColumns(rename(d, al[first], column_map[k].std), k + 1)

missing_columns(d) ==
    SelectSeq([k \in 1..Len(column_map) |-> column_map[k].std],
              LAMBDA s : \A k \in 1..Len(column_map) :
                            column_map[k].std = s =>
                                \A a \in 1..Len(column_map[k].aliases) :
                                    column_map[k].aliases[a] \notin d.columns)

\* Lines 45-48: duplicates are removed on whichever of name and location exist.
RemoveDuplicates(d) ==
    LET duplicate_cols == {"name", "location"} \cap d.columns
    IN IF duplicate_cols # {} THEN drop_duplicates(d, duplicate_cols) ELSE d

RECURSIVE SortAsc(_)
SortAsc(s) ==
    IF s = <<>> THEN <<>>
    ELSE LET m == CHOOSE i \in 1..Len(s) : \A j \in 1..Len(s) : s[i] <= s[j]
         IN <<s[m]>> \o SortAsc(SubSeq(s, 1, m - 1) \o SubSeq(s, m + 1, Len(s)))

\* Series.median() over the non-null values (costs of the model are even, so
\* the mean of the two middle values is exact).
median(vals) ==
    LET s == SortAsc(vals)
        n == Len(s)
    IN IF n % 2 = 1 THEN s[(n + 1) \div 2]
       ELSE (s[n \div 2] + s[(n \div 2) + 1]) \div 2

DefaultRating == 30
DefaultCost == 500
Unknown == <<"U", "n", "k", "n", "o", "w", "n">>

HandleRating(d) ==
    IF "rating" \in d.columns
    THEN Assign(d, "rating",
                LAMBDA c : IF notnull(c["rating"])
                              /\ notnull(to_numeric_tenths(Val(c["rating"])))
                           THEN to_numeric_tenths(Val(c["rating"]))
                           ELSE Some(DefaultRating))
    ELSE Assign(d, "rating", LAMBDA c : Some(DefaultRating))

\* astype(str) turns NaN into the text 'nan', which to_numeric coerces back
\* to NaN; then NaN is filled with the median, or 500 when nothing parsed.
HandleCost(d) ==
    IF "cost" \in d.columns
    THEN LET num == Assign(d, "cost",
                           LAMBDA c : IF notnull(c["cost"])
                                      THEN to_numeric(replace(Val(c["cost"]), ","))
                                      ELSE NaN)
             parsed == SelectSeq([i \in 1..Len(num.rows) |-> num.rows[i].cells["cost"]],
                                 notnull)
             cost_median == IF parsed # <<>>
                            THEN median([i \in 1..Len(parsed) |-> Val(parsed[i])])
                            ELSE DefaultCost
         IN Assign(num, "cost",
                   LAMBDA c : IF notnull(c["cost"]) THEN c["cost"] ELSE Some(cost_median))
    ELSE Assign(d, "cost", LAMBDA c : Some(DefaultCost))

HandleLocation(d) ==
    IF "location" \notin d.columns
    THEN Assign(d, "location", LAMBDA c : Some(Unknown))
    ELSE d

HandleCuisinesNoFill(d) ==
    IF "cuisines" \in d.columns
    THEN Assign(d, "cuisines",
                LAMBDA c : IF notnull(c["cuisines"]) THEN Some(lower(Val(c["cuisines"])))
                           ELSE NaN)
    ELSE Assign(d, "cuisines", LAMBDA c : Some(Unknown))

\* Lines 79-83: the fill value is lowercased with the column, the default of
\* an absent column is not.
HandleCuisines(d) ==
    IF "cuisines" \in d.columns
    THEN Assign(d, "cuisines",
                LAMBDA c : IF notnull(c["cuisines"]) THEN Some(lower(Val(c["cuisines"])))
                           ELSE Some(lower(Unknown)))
    ELSE Assign(d, "cuisines", LAMBDA c : Some(Unknown))

HandleVotes(d) ==
    IF "votes" \notin d.columns
    THEN Assign(d, "votes", LAMBDA c : Some(0))
    ELSE d

low == <<"l", "o", "w">>
medium == <<"m", "e", "d", "i", "u", "m">>
high == <<"h", "i", "g", "h">>

categorize_cost(cost) ==
    IF cost < 300 THEN low
    ELSE IF cost < 700 THEN medium
    ELSE high

primary_cuisine(x) ==
    IF notnull(x) THEN Some(strip(split(Val(x), ",")[1])) ELSE Some(lower(Unknown))

clip(x, lo, hi) == IF x < lo THEN lo ELSE IF x > hi THEN hi ELSE x

FeatureEngineering(d) ==
    LET d1 == Assign(d, "cost_category",
                     LAMBDA c : Some(categorize_cost(Val(c["cost"]))))
        d2 == Assign(d1, "primary_cuisine", LAMBDA c : primary_cuisine(c["cuisines"]))
    IN Assign(d2, "normalized_rating", LAMBDA c : Some(clip(Val(c["rating"]), 10, 50)))

\* Lines 18-110: everything after a successful read.
CleanFrame(d0) ==
    LET d1 == RenameColumns(d0, 1)
        d2 == RemoveDuplicates(d1)
        d3 == drop(d2, columns_to_drop)
        d4 == dropna(d3)
        d5 == HandleVotes(HandleCuisines(HandleLocation(HandleCost(HandleRating(d4)))))
    IN FeatureEngineering(d5)

Stages == {"normalize", "deduplicate", "dropna", "coerce", "derive"}


-----------------------------------------------------------------------------
(* filter_and_rank_restaurants                                             *)

VoteCap == 1000
RatingHeavy == "A: Rating-heavy"
VotesHeavy == "B: Votes-heavy"

Min(a, b) == IF a <= b THEN a ELSE b

lower_all(list) == [i \in 1..Len(list) |-> lower(list[i])]

\* Lines 122-128 (and 203-209 of main): the positions of the rows that meet
\* every condition whose column exists.  str.contains is a regular-expression
\* search with na=False.
Conditions(d, cuisines, budget, location) ==
    {i \in 1..Len(d.rows) :
        LET c == d.rows[i].cells
        IN /\ "primary_cuisine" \in d.columns =>
                  /\ notnull(c["primary_cuisine"])
                  /\ contains(lower(Val(c["primary_cuisine"])), join(cuisines, <<"|">>))
           /\ "cost_category" \in d.columns =>
                  /\ notnull(c["cost_category"])
                  /\ lower(Val(c["cost_category"])) = lower(budget)
           /\ "location" \in d.columns =>
                  /\ notnull(c["location"])
                  /\ contains(lower(Val(c["location"])), location)}

FilterColumns == {"primary_cuisine", "cost_category", "location"}

\* Lines 130-136: with a condition the result is a new frame, without one it
\* is the caller's frame itself.
IsAlias(d) == FilterColumns \cap d.columns = {}

ApplyFilters(d, cuisines, budget, location) ==
    [d EXCEPT !.rows = Pick(d.rows, Conditions(d, cuisines, budget, location))]

\* Lines 139-144, scaled by 10000: 0.8 * rating + 0.2 * min(votes, 1000) / 1000
\* and 0.5 * rating + 0.5 * min(votes, 1000) / 1000.
vote_signal(x) == IF notnull(x) THEN Min(Val(x), VoteCap) ELSE 0

Score(c, strategy) ==
    IF strategy = RatingHeavy
    THEN 800 * Val(c["normalized_rating"]) + 2 * vote_signal(c["votes"])
    ELSE 500 * Val(c["normalized_rating"]) + 5 * vote_signal(c["votes"])

AddScore(d, strategy) == Assign(d, "score", LAMBDA c : Some(Score(c, strategy)))

RECURSIVE sort_values_ascending(_, _)
sort_values_ascending(rows, tie) ==
    IF rows = <<>> THEN <<>>
    ELSE LET best == {i \in 1..Len(rows) :
                        \A j \in 1..Len(rows) :
                            Val(rows[i].cells["score"]) <= Val(rows[j].cells["score"])}
             m == CHOOSE i \in best : \A j \in best : i <= j
         IN <<rows[m]>> \o sort_values_ascending(SubSeq(rows, 1, m - 1)
                                                    \o SubSeq(rows, m + 1, Len(rows)), tie)

\* sort_values(by='score', ascending=False): descending by score; the order of
\* rows of equal score is the one the sort algorithm gives (tie).
RECURSIVE sort_values(_, _)
sort_values(rows, tie) ==
    IF rows = <<>> THEN <<>>
    ELSE LET best == {i \in 1..Len(rows) :
                        \A j \in 1..Len(rows) :
                            Val(rows[j].cells["score"]) <= Val(rows[i].cells["score"])}
             m == IF tie = "input order"
                  THEN CHOOSE i \in best : \A j \in best : i <= j
                  ELSE CHOOSE i \in best : \A j \in best : j <= i
         IN <<rows[m]>> \o sort_values(SubSeq(rows, 1, m - 1)
                                          \o SubSeq(rows, m + 1, Len(rows)), tie)

head(rows, n) == SubSeq(rows, 1, Min(n, Len(rows)))

\* Lines 150-156: the parts of the explanation text.
Explanation(d, c, cuisines, budget, strategy) ==
    [matched |-> join(cuisines, <<",", " ">>),
     budget |-> IF "cost_category" \in d.columns THEN Some(budget) ELSE None,
     rating |-> IF "rating" \in d.columns
                THEN Some(<<Val(c["normalized_rating"]),
                            IF notnull(c["votes"]) THEN Val(c["votes"]) ELSE 0>>)
                ELSE None,
     strategy |-> strategy]

EmptyFrame == [columns |-> {}, rows |-> <<>>]

\* The frame the function returns, for an argument that is a frame.
TopRestaurants(d, cuisines, budget, location, strategy, top_n, tie) ==
    LET cs == lower_all(cuisines)
        scored == AddScore(ApplyFilters(d, cs, budget, lower(location)), strategy)
        top == [scored EXCEPT !.rows = head(sort_values(scored.rows, tie), top_n)]
    IN Assign(top, "explanation",
              LAMBDA c : Some(Explanation(scored, c, cs, budget, strategy)))

\* The caller's frame after the call: the score column is written to
\* filtered_df, which is the caller's frame when no condition was built.
ArgumentAfter(d, strategy) ==
    IF IsAlias(d) THEN AddScore(d, strategy) ELSE d

filter_and_rank_restaurants(arg, cuisines, budget, location, strategy, top_n, tie) ==
    IF arg = None
    THEN [arg |-> arg, result |-> EmptyFrame]
    ELSE [arg |-> Some(ArgumentAfter(Val(arg), strategy)),
          result |-> TopRestaurants(Val(arg), cuisines, budget, location,
                                    strategy, top_n, tie)]


-----------------------------------------------------------------------------
(* Inputs                                                                  *)

MaxRows == 2

SourceColumns ==
    {"Restaurant Name", "City", "Aggregate rating", "Average Cost for two",
     "Cuisines", "Votes", "Currency", "Latitude"}

CanonicalSource ==
    {"Restaurant Name", "City", "Aggregate rating", "Average Cost for two",
     "Cuisines", "Votes"}

RawRow(n, l, r, c, cu, v, x) ==
    [col \in SourceColumns |->
        CASE col = "Restaurant Name" -> n
          [] col = "City" -> l
          [] col = "Aggregate rating" -> r
          [] col = "Average Cost for two" -> c
          [] col = "Cuisines" -> cu
          [] col = "Votes" -> v
          [] OTHER -> x]

R45 == Some(<<"4", ".", "5">>)
R7 == Some(<<"7">>)
RDash == Some(<<"-">>)
C1200 == Some(<<"1", ",", "2", "0", "0">>)
C250 == Some(<<"2", "5", "0">>)
C500 == Some(<<"5", "0", "0">>)
CuAb == Some(<<"A", ",", " ", "b">>)
CuB == Some(<<" ", "b", " ">>)
CityAb == Some(<<"A", "b">>)
CityB == Some(<<"b">>)

\* Rows without a null cell: every (name, city) pair under two profiles.
DenseRows ==
    {RawRow(Some(n), l, p[1], p[2], p[3], p[4], Some("x")) :
        n \in {"A", "B"}, l \in {CityAb, CityB},
        p \in {<<R45, C1200, CuAb, Some(1500)>>, <<R7, C250, CuB, Some(200)>>}}

\* Rows with one null cell, one per canonical column, and a bad rating text.
OneNullRows ==
    {RawRow(NaN, CityAb, R45, C1200, CuAb, Some(1500), Some("x")),
     RawRow(Some("A"), NaN, R45, C1200, CuAb, Some(1500), Some("x")),
     RawRow(Some("A"), CityAb, NaN, C250, CuAb, Some(200), Some("x")),
     RawRow(Some("B"), CityAb, R45, NaN, CuB, Some(200), Some("x")),
     RawRow(Some("B"), CityB, R7, C500, NaN, Some(0), Some("x")),
     RawRow(Some("A"), CityB, RDash, C500, CuB, NaN, Some("x"))}

\* Rows with more than 30% of their cells null.
SparseRows ==
    {RawRow(Some("A"), CityAb, NaN, NaN, NaN, Some(200), NaN),
     RawRow(NaN, NaN, NaN, NaN, NaN, NaN, NaN)}

RowPool == DenseRows \cup OneNullRows \cup SparseRows

Headers ==
    {CanonicalSource, SourceColumns}
        \cup {CanonicalSource \ {c} : c \in CanonicalSource}
        \cup {CanonicalSource \ {"Aggregate rating", "Average Cost for two"}}

Restrict(r, h) == [c \in h |-> r[c]]

RECURSIVE Tables(_, _)
Tables(pool, n) ==
    IF n = 0 THEN {<<>>}
    ELSE Tables(pool, n - 1)
            \cup {Append(t, r) : t \in {u \in Tables(pool, n - 1) : Len(u) = n - 1},
                                 r \in pool}

FilesOf(pool, headers) ==
    {[columns |-> h, rows |-> [i \in 1..Len(t) |-> Restrict(t[i], h)]] :
        h \in headers, t \in Tables(pool, MaxRows)}

Files == FilesOf(RowPool, Headers)

ReadOutcomes == {"ok", "UnicodeDecodeError", "OtherError"}

NoRequest == [called |-> FALSE]

InitCommon ==
    /\ outcome = "not called"
    /\ reads = <<>>
    /\ stagesRun = {}
    /\ cleaned = None
    /\ df = None
    /\ dfBefore = None
    /\ request = NoRequest
    /\ filtered = None
    /\ ranked = None
    /\ recommendations = None
    /\ preferences = None
    /\ filtered_df = None
    /\ lastRun = [kind |-> "none"]

-----------------------------------------------------------------------------
(* load_and_clean_data as an operation                                     *)

\* Lines 7-16: the result of the try statement for the outcomes r1 and r2 of
\* the two pd.read_csv calls.  An exception raised inside the first handler
\* is not caught by the second one and leaves the function.
LoadResult(r1, r2) ==
    IF r1 = "ok" THEN "frame"
    ELSE IF r1 = "UnicodeDecodeError"
         THEN (IF r2 = "ok" THEN "frame" ELSE "raised")
         ELSE "None"

ReadsOf(r1, r2) ==
    IF r1 = "UnicodeDecodeError"
    THEN <<[encoding |-> "latin1", result |-> r1],
           [encoding |-> "iso-8859-1", result |-> r2]>>
    ELSE <<[encoding |-> "latin1", result |-> r1]>>

load_and_clean_data(r1, r2) ==
    /\ outcome' = LoadResult(r1, r2)
    /\ reads' = ReadsOf(r1, r2)
    /\ stagesRun' = IF LoadResult(r1, r2) = "frame" THEN Stages ELSE {}
    /\ cleaned' = IF LoadResult(r1, r2) = "frame" THEN Some(CleanFrame(read_csv(file)))
                  ELSE None

LoadAndClean ==
    /\ \E r1, r2 \in ReadOutcomes : load_and_clean_data(r1, r2)
    /\ UNCHANGED <<file, tiePolicy, rankVars, sessionVars, lastRun>>

InitClean ==
    /\ file \in Files
    /\ tiePolicy = "input order"
    /\ InitCommon

NextClean == LoadAndClean

SpecClean == InitClean /\ [][NextClean]_vars


-----------------------------------------------------------------------------
(* filter_and_rank_restaurants as an operation                             *)

MaxTopN == 2

\* Rows for the engine: records of equal score, a null location, null votes,
\* an unparsable rating and a null cuisines cell.
RankRowPool ==
    OneNullRows
        \cup {RawRow(Some(n), CityAb, R45, C1200, CuAb, Some(1500), Some("x")) :
                 n \in {"A", "B"}}

\* Frames a caller can pass: a cleaned frame, whole or without some of the
\* columns the filter looks at.
DropSets == {{}, FilterColumns, {"cost_category"}, {"primary_cuisine", "location"}}

RankInputs ==
    {drop(CleanFrame(read_csv(f)), ds) :
        f \in FilesOf(RankRowPool, {CanonicalSource}), ds \in DropSets}

CuisineLists == {<<<<"a">>>>, <<<<"B">>>>, <<<<"u">>, <<"b">>>>}
Budgets == {low, <<"M", "e", "d", "i", "u", "m">>, high}
Locations == {<<"a", "B">>, <<"b">>, <<".">>}
Strategies == {RatingHeavy, VotesHeavy}

\* One call per input frame.
FilterAndRank ==
    /\ request = NoRequest
    /\ \E cuisines \in CuisineLists, budget \in Budgets, location \in Locations,
          strategy \in Strategies, top_n \in 1..MaxTopN :
          LET r == filter_and_rank_restaurants(df, cuisines, budget, location,
                                               strategy, top_n, tiePolicy)
          IN /\ request' = [called |-> TRUE, cuisines |-> cuisines, budget |-> budget,
                            location |-> location, strategy |-> strategy,
                            top_n |-> top_n]
             /\ dfBefore' = df
             /\ df' = r.arg
             /\ filtered' = IF df = None THEN None
                            ELSE Some(ApplyFilters(Val(df), lower_all(cuisines), budget,
                                                   lower(location)))
             /\ ranked' = Some(r.result)
    /\ UNCHANGED <<file, tiePolicy, cleanVars, sessionVars, lastRun>>

InitRank ==
    /\ file = [columns |-> {}, rows |-> <<>>]
    /\ tiePolicy \in {"input order", "reverse order"}
    /\ outcome = "not called"
    /\ reads = <<>>
    /\ stagesRun = {}
    /\ cleaned = None
    /\ df \in {None} \cup {Some(d) : d \in RankInputs}
    /\ dfBefore = None
    /\ request = NoRequest
    /\ filtered = None
    /\ ranked = None
    /\ recommendations = None
    /\ preferences = None
    /\ filtered_df = None
    /\ lastRun = [kind |-> "none"]

NextRank == FilterAndRank

SpecRank == InitRank /\ [][NextRank]_vars


-----------------------------------------------------------------------------
(* main: one run of the script per form submission                         *)

DefaultTopN == 10

\* Rows of the file the application reads: two records of equal score and one
\* with an unparsable rating and null votes.
UIRowPool ==
    {RawRow(Some("A"), CityAb, R45, C1200, CuAb, Some(1500), Some("x")),
     RawRow(Some("B"), CityAb, R45, C1200, CuAb, Some(1500), Some("x")),
     RawRow(Some("A"), CityB, RDash, C500, CuB, NaN, Some("x"))}

\* Form values: a selection of the cuisine options (possibly empty), a budget
\* option, the location text (possibly empty) and a strategy.
FormCuisines == {<<>>, <<<<"a">>>>, <<<<"a">>, <<"b">>>>}
FormBudgets == {medium, high}
FormLocations == {<<>>, <<"A", "b">>, <<".">>}

\* The results load_and_clean_data can give, over all outcomes of its reads.
LoadResults == {LoadResult(r1, r2) : r1, r2 \in ReadOutcomes}

StoredUnfiltered(d, cuisines, budget, location) == d

\* Lines 203-213: the filtered frame main keeps for re-ranking.
StoredFiltered(d, cuisines, budget, location) ==
    [d EXCEPT !.rows = Pick(d.rows, Conditions(d, lower_all(cuisines), budget,
                                               lower(location)))]

\* Lines 184-217: the preference form was submitted.  The frame returned by
\* load_and_clean_data is a local of this run; a load that returns None or
\* raises ends the run before the session state is touched.
Submit ==
    /\ \E cuisines \in FormCuisines, budget \in FormBudgets,
          location \in FormLocations, strategy \in Strategies, loaded \in LoadResults :
          /\ IF loaded # "frame"
             THEN /\ lastRun' = [kind |-> "load failed"]
                  /\ UNCHANGED sessionVars
             ELSE IF cuisines # <<>> /\ budget # <<>> /\ location # <<>>
             THEN LET r == filter_and_rank_restaurants(
                               Some(CleanFrame(read_csv(file))), cuisines, budget,
                               location, strategy, DefaultTopN, tiePolicy)
                  IN /\ recommendations' = Some(r.result)
                     /\ preferences' = Some([cuisines |-> cuisines, budget |-> budget,
                                             location |-> location,
                                             strategy |-> strategy])
                     /\ filtered_df' = Some(StoredFiltered(Val(r.arg), cuisines, budget,
                                                           location))
                     /\ lastRun' = [kind |-> "submit"]
             ELSE /\ recommendations' = None
                  /\ filtered_df' = None
                  /\ UNCHANGED preferences
                  /\ lastRun' = [kind |-> "incomplete"]
    /\ UNCHANGED <<file, tiePolicy, cleanVars, rankVars>>

RerankKeepsStoredStrategy ==
    /\ recommendations # None
    /\ filtered_df # None
    /\ \E new_strategy \in Strategies :
          LET p == Val(preferences)
              r == filter_and_rank_restaurants(filtered_df, p.cuisines, p.budget,
                                               p.location, new_strategy, DefaultTopN,
                                               tiePolicy)
          IN /\ recommendations' = Some(r.result)
             /\ preferences' = preferences
             /\ filtered_df' = r.arg
             /\ lastRun' = [kind |-> "rerank", changed |-> new_strategy # p.strategy]
    /\ UNCHANGED <<file, tiePolicy, cleanVars, rankVars>>

\* Lines 245-261: the re-rank form was submitted; it exists only while
\* recommendations and filtered_df are set.
Rerank ==
    /\ recommendations # None
    /\ filtered_df # None
    /\ \E new_strategy \in Strategies :
          LET p == Val(preferences)
              r == filter_and_rank_restaurants(filtered_df, p.cuisines, p.budget,
                                               p.location, new_strategy, DefaultTopN,
                                               tiePolicy)
          IN /\ recommendations' = Some(r.result)
             /\ preferences' = Some([p EXCEPT !.strategy = new_strategy])
             /\ filtered_df' = r.arg
             /\ lastRun' = [kind |-> "rerank", changed |-> new_strategy # p.strategy]
    /\ UNCHANGED <<file, tiePolicy, cleanVars, rankVars>>

\* Lines 263-271: the feedback form was submitted.
Feedback ==
    /\ lastRun' = [kind |-> "feedback"]
    /\ UNCHANGED <<file, tiePolicy, cleanVars, rankVars, sessionVars>>

InitUI ==
    /\ file \in FilesOf(UIRowPool, {CanonicalSource})
    /\ tiePolicy \in {"input order", "reverse order"}
    /\ InitCommon

NextUI == Submit \/ Rerank \/ Feedback

SpecUI == InitUI /\ [][NextUI]_vars


-----------------------------------------------------------------------------
(* Properties of load_and_clean_data (SpecClean)                           *)

Canonical == {"name", "location", "rating", "cost", "cuisines", "votes"}

\* The raw row a returned record comes from.
RawOf(row) == file.rows[row.idx + 1]

\* A raw row passes the sparse-row threshold of dropna.
Dense(raw) ==
    10 * Cardinality({c \in file.columns \ columns_to_drop : notnull(raw[c])})
        >= 7 * Cardinality(file.columns \ columns_to_drop)

Retained(i) ==
    \E k \in 1..Len(Val(cleaned).rows) : Val(cleaned).rows[k].idx = i - 1

\* C1 as stated: every returned record has a non-null value in each of name,
\* location, rating, cost, cuisines and votes.
C1_AllCanonicalNonNull ==
    outcome = "frame" =>
        \A i \in 1..Len(Val(cleaned).rows) :
            \A c \in Canonical :
                /\ c \in Val(cleaned).columns
                /\ notnull(Val(cleaned).rows[i].cells[c])

\* C1 amended: every returned record has non-null rating, cost and cuisines;
\* location and votes are fields of every record, defaulted to "Unknown" and 0
\* only when the source has no such column and otherwise equal to the source
\* cell, null included; name is the source cell, null included, and is not a
\* field at all when the source has no name column.
C1_DefaultsByColumn ==
    outcome = "frame" =>
        LET d == Val(cleaned)
        IN /\ {"location", "rating", "cost", "cuisines", "votes"} \subseteq d.columns
           /\ ("name" \in d.columns) = ("Restaurant Name" \in file.columns)
           /\ \A i \in 1..Len(d.rows) :
                LET c == d.rows[i].cells
                    raw == RawOf(d.rows[i])
                IN /\ notnull(c["rating"]) /\ notnull(c["cost"]) /\ notnull(c["cuisines"])
                   /\ c["location"] = IF "City" \in file.columns THEN raw["City"]
                                      ELSE Some(Unknown)
                   /\ c["votes"] = IF "Votes" \in file.columns THEN raw["Votes"]
                                   ELSE Some(0)
                   /\ "Restaurant Name" \in file.columns =>
                          c["name"] = raw["Restaurant Name"]

\* A returned record without a name field whose votes cell stayed null.
C1_Witness ==
    /\ outcome = "frame"
    /\ "name" \notin Val(cleaned).columns
    /\ \E i \in 1..Len(Val(cleaned).rows) : ~ notnull(Val(cleaned).rows[i].cells["votes"])

\* Two raw rows with the same (name, location), different elsewhere, and no
\* third row with that key.
DuplicatePair(i, j) ==
    /\ i < j
    /\ file.rows[i]["Restaurant Name"] = file.rows[j]["Restaurant Name"]
    /\ file.rows[i]["City"] = file.rows[j]["City"]
    /\ file.rows[i] # file.rows[j]
    /\ \A k \in 1..Len(file.rows) :
          (/\ file.rows[k]["Restaurant Name"] = file.rows[i]["Restaurant Name"]
           /\ file.rows[k]["City"] = file.rows[i]["City"]) => k \in {i, j}

\* C2 as stated: of two raw rows with identical (name, location) and differing
\* other fields exactly one is in the output.
C2_ExactlyOneRetained ==
    (outcome = "frame" /\ {"Restaurant Name", "City"} \subseteq file.columns) =>
        \A i, j \in 1..Len(file.rows) :
            DuplicatePair(i, j) => (Retained(i) # Retained(j))

\* C2 amended: of two such rows the later one is never in the output, and the
\* earlier one is in the output exactly when it passes the sparse-row
\* threshold; so never both, and none when the earlier row is sparse.
C2_FirstIfDense ==
    (outcome = "frame" /\ {"Restaurant Name", "City"} \subseteq file.columns) =>
        \A i, j \in 1..Len(file.rows) :
            DuplicatePair(i, j) =>
                /\ ~ Retained(j)
                /\ Retained(i) = Dense(file.rows[i])

\* A sparse row followed by a dense row of the same key: both are removed.
C2_Witness ==
    /\ outcome = "frame"
    /\ {"Restaurant Name", "City"} \subseteq file.columns
    /\ \E i, j \in 1..Len(file.rows) :
          /\ DuplicatePair(i, j)
          /\ ~ Dense(file.rows[i])
          /\ Dense(file.rows[j])
          /\ ~ Retained(i)
          /\ ~ Retained(j)

\* C3 as stated: when only one of name and location is present, deduplication
\* removes no row, so every row that passes the sparse-row threshold is in the
\* output.
C3_NoDedupUnlessBoth ==
    (/\ outcome = "frame"
     /\ ~ ({"Restaurant Name", "City"} \subseteq file.columns)) =>
        \A i \in 1..Len(file.rows) : Dense(file.rows[i]) => Retained(i)

\* C4 as stated: without a cuisines column every returned record has
\* primary_cuisine "unknown", in lower case.
C4_MissingCuisinesUnknown ==
    (/\ outcome = "frame"
     /\ \E k \in 1..Len(missing_columns(read_csv(file))) :
            missing_columns(read_csv(file))[k] = "cuisines") =>
        \A i \in 1..Len(Val(cleaned).rows) :
            Val(cleaned).rows[i].cells["primary_cuisine"] = Some(lower(Unknown))

\* C5 as stated: a decode failure of the first read is followed by exactly one
\* read under the fallback encoding, and a call whose last read failed returns
\* None without having run any stage.
C5_LoadFailureReturnsNone ==
    outcome # "not called" =>
        /\ reads[1].encoding = "latin1"
        /\ IF reads[1].result = "UnicodeDecodeError"
           THEN Len(reads) = 2 /\ reads[2].encoding = "iso-8859-1"
           ELSE Len(reads) = 1
        /\ reads[Len(reads)].result # "ok" =>
              /\ outcome = "None"
              /\ stagesRun = {}
              /\ cleaned = None


-----------------------------------------------------------------------------
(* Properties of filter_and_rank_restaurants (SpecRank)                    *)

InFrame(d, row) == \E k \in 1..Len(d.rows) : d.rows[k].idx = row.idx

\* The filter conditions as the specification words them: plain substring
\* tests, skipped when the column is absent.
MeetsConditions(d, c, req) ==
    /\ "primary_cuisine" \in d.columns =>
          /\ notnull(c["primary_cuisine"])
          /\ \E k \in 1..Len(req.cuisines) :
                IsSubstring(lower(Val(c["primary_cuisine"])), lower(req.cuisines[k]))
    /\ "cost_category" \in d.columns =>
          /\ notnull(c["cost_category"])
          /\ lower(Val(c["cost_category"])) = lower(req.budget)
    /\ "location" \in d.columns =>
          /\ notnull(c["location"])
          /\ IsSubstring(lower(Val(c["location"])), lower(req.location))

\* C6 as stated: a record is in the filtered set if and only if its
\* primary_cuisine contains a requested cuisine, its cost_category equals the
\* budget and its location contains the requested location, each ignoring
\* case and each skipped when its column is absent.
C6_FilteredIffConditions ==
    (request.called /\ dfBefore # None) =>
        \A i \in 1..Len(Val(dfBefore).rows) :
            InFrame(Val(filtered), Val(dfBefore).rows[i])
                = MeetsConditions(Val(dfBefore), Val(dfBefore).rows[i].cells, request)

ScoreOfRow(row) == Score(row.cells, request.strategy)

\* C8: the result has min(top_n, number of filtered records) records, each a
\* filtered record with its score, in non-increasing order of score, and no
\* filtered record left out scores higher than a returned one; an empty
\* filtered set gives an empty result.
C8_TopNByScore ==
    (request.called /\ dfBefore # None) =>
        LET f == Val(filtered)
            t == Val(ranked)
        IN /\ Len(t.rows) = Min(request.top_n, Len(f.rows))
           /\ \A a, b \in 1..Len(t.rows) : a # b => t.rows[a].idx # t.rows[b].idx
           /\ \A a \in 1..Len(t.rows) :
                 /\ \E k \in 1..Len(f.rows) :
                       /\ f.rows[k].idx = t.rows[a].idx
                       /\ \A c \in f.columns \ {"score"} :
                             f.rows[k].cells[c] = t.rows[a].cells[c]
                 /\ t.rows[a].cells["score"] = Some(ScoreOfRow(t.rows[a]))
           /\ \A a \in 1..(Len(t.rows) - 1) :
                 Val(t.rows[a].cells["score"]) >= Val(t.rows[a + 1].cells["score"])
           /\ \A k \in 1..Len(f.rows) :
                 ~ InFrame(t, f.rows[k]) =>
                     \A a \in 1..Len(t.rows) :
                         ScoreOfRow(f.rows[k]) <= Val(t.rows[a].cells["score"])

\* More filtered records than top_n, with a lower-scored one left out.
C8_Witness ==
    /\ request.called
    /\ dfBefore # None
    /\ Len(Val(filtered).rows) > request.top_n
    /\ Len(Val(ranked).rows) = request.top_n
    /\ \E k \in 1..Len(Val(filtered).rows) :
          /\ ~ InFrame(Val(ranked), Val(filtered).rows[k])
          /\ ScoreOfRow(Val(filtered).rows[k]) < Val(Val(ranked).rows[1].cells["score"])

\* C9 as stated: the call leaves the frame it was given as it was.
C9_InputUnchanged == request.called => df = dfBefore

-----------------------------------------------------------------------------
(* Properties of main (SpecUI)                                             *)

\* C7: a re-rank with the strategy of the stored recommendations returns the
\* same records in the same order, and filtering the stored filtered set again
\* removes nothing.
C7_RerankSameStrategy ==
    [][(lastRun'.kind = "rerank" /\ ~ lastRun'.changed) =>
          /\ recommendations' = recommendations
          /\ LET p == Val(preferences)
             IN ApplyFilters(Val(filtered_df), lower_all(p.cuisines), p.budget,
                             lower(p.location)) = Val(filtered_df)]_vars

\* A re-rank under the same strategy of two records of equal score.
C7_Witness ==
    /\ lastRun.kind = "rerank"
    /\ ~ lastRun.changed
    /\ Len(Val(recommendations).rows) >= 2
    /\ Val(recommendations).rows[1].cells["score"]
          = Val(recommendations).rows[2].cells["score"]

SessionConsistent ==
    recommendations # None =>
        /\ preferences # None
        /\ filtered_df # None
        /\ LET p == Val(preferences)
           IN /\ filtered_df = Some(ApplyFilters(CleanFrame(read_csv(file)),
                                                 lower_all(p.cuisines), p.budget,
                                                 lower(p.location)))
              /\ \A i \in 1..Len(Val(recommendations).rows) :
                    LET c == Val(recommendations).rows[i].cells
                    IN /\ Val(c["explanation"]).strategy = p.strategy
                       /\ c["score"] = Some(Score(c, p.strategy))

\* C10: whenever recommendations is set, so are preferences and filtered_df,
\* the stored strategy is the one the recommendations were scored with and
\* filtered_df is the filter result for the stored cuisines, budget and
\* location; a submit whose load fails changes none of the three.
C10_SessionInvariant ==
    /\ []SessionConsistent
    /\ [][lastRun'.kind = "load failed" => UNCHANGED sessionVars]_vars

\* Recommendations re-ranked under another strategy, then a failed load.
C10_Witness ==
    /\ lastRun.kind = "load failed"
    /\ recommendations # None
    /\ Len(Val(recommendations).rows) >= 1
    /\ \E i \in 1..Len(Val(recommendations).rows) :
          Val(Val(recommendations).rows[i].cells["explanation"]).strategy = VotesHeavy
    /\ Val(preferences).strategy = VotesHeavy


====
